---- MODULE Spec2Model ----
(***************************************************************************)
(* Medical-Chatbot: the store locator (map_agent_auto.py) and the          *)
(* multimodal chatbot (medicalbot.py).                                     *)
(*                                                                         *)
(* Four specifications share the module's variables:                       *)
(*   SpecRank   get_stores_with_location / find_nearest_stores             *)
(*   SpecRoute  get_route_info                                             *)
(*   SpecQuery  one script run of main() with create_map                   *)
(*   SpecChat   script reruns of medicalbot.py in several sessions         *)
(* A specification leaves the variables of the other three at their idle   *)
(* values.                                                                 *)
(*                                                                         *)
(* Lengths are integers: a distance in km with 2 decimals is the integer   *)
(* number of hundredths of a km; the routing service's metres and seconds  *)
(* are integers.                                                           *)
(***************************************************************************)
EXTENDS Integers, Sequences, FiniteSets

VARIABLES
    catalog,      \* what the data source behind get_stores_with_location holds
    catalog0,     \* history: the catalog at start
    listed,       \* the last list a caller got from get_stores_with_location(),
                  \* and (history) whether a ranking was made before it
    call,         \* arguments of the last find_nearest_stores call, or NoCall
    nearest,      \* outcome of the last find_nearest_stores call
    response,     \* what requests.get(...) / response.json() produced
    route_info,   \* outcome of get_route_info on response
    user_location,\* st.session_state.user_location of the map page
    run,          \* what the last script run of main() read and drew
    session_state,\* st.session_state of each chatbot session
    checkpointer, \* MemorySaver of the cached agent: thread_id -> messages
    invoked,      \* history: the agent.invoke calls made, with the state each saw
    chat          \* history: per session, the calls made by its reruns

rankVars  == <<catalog, catalog0, listed, call, nearest>>
routeVars == <<response, route_info>>
queryVars == <<user_location, run>>
chatVars  == <<session_state, checkpointer, invoked, chat>>
vars == <<catalog, catalog0, listed, call, nearest, response, route_info,
          user_location, run, session_state, checkpointer, invoked, chat>>

None == "None"
NoValue == [kind |-> "none"]

---------------------------------------------------------------------------
(* Bounds *)

MaxStores == 4     \* store_ids are 1..MaxStores
MaxRanked == 3     \* the catalogs that are ranked in every order hold stores 1..MaxRanked
MaxCoord  == 1     \* latitudes and longitudes are grid points 0..MaxCoord
MaxLimit  == 4     \* find_nearest_stores is called with -MaxLimit..MaxLimit

Min(a, b) == IF a <= b THEN a ELSE b
Max(a, b) == IF a >= b THEN a ELSE b
Abs(a) == IF a >= 0 THEN a ELSE -a

---------------------------------------------------------------------------
(* Stores and the catalog *)

StoreIds == 1..MaxStores
Coords == 0..MaxCoord

\* The user's positions: the grid points of the diagonal.
Origins == {<<c, c>> : c \in Coords}

\* The row of store i: the store's fields besides its id and position
\* (store_name, address, phone_number) are payload that no operation reads
\* to decide anything; store_name stands for them.
StoreRecord(i) ==
    [store_id |-> i,
     store_name |-> i,
     latitude |-> i % (MaxCoord + 1),
     longitude |-> (i \div (MaxCoord + 1)) % (MaxCoord + 1)]

\* Sequences of pairwise distinct store ids, of every length and order.
RECURSIVE IdSeqs(_)
IdSeqs(n) ==
    IF n = 0 THEN {<<>>}
    ELSE LET shorter == IdSeqs(n - 1)
         IN shorter \cup
            {Append(s, i) : s \in {t \in shorter : Len(t) = n - 1},
                            i \in 1..MaxRanked}

DistinctIdSeqs ==
    {s \in IdSeqs(MaxRanked) : \A i, j \in 1..Len(s) : i # j => s[i] # s[j]}

Catalogs == {[k \in 1..Len(s) |-> StoreRecord(s[k])] : s \in DistinctIdSeqs}

\* get_stores_with_location: the list is built by the call, from a literal;
\* every call returns new dicts holding the data source's rows. The answer
\* of sql_agent.ask_db is not used, and the call is taken to return.
get_stores_with_location(cat) == cat

\* What the data source holds after a caller has changed the list and dicts
\* a call returned: the call built them, so nothing of it.
CatalogAfterMutation_Shared(cat, local) == local
CatalogAfterMutation(cat, local) == cat

---------------------------------------------------------------------------
(* Distances *)

\* round(x, 2) of a length x given in metres / 1000, as hundredths of a km.
\* A length ending in 5 metres is no tie for the float: x km is the double
\* nearest to it, and round() goes to the side that double lies on.
TiesRoundedUp == {5, 25, 35, 12345}
TiesRoundedDown == {15, 45, 125, 995, 1005, 1235, 4995, 5005}

Round2(metres) ==
    LET q == metres \div 10
        r == metres % 10
    IN  IF r < 5 THEN q
        ELSE IF r > 5 THEN q + 1
        ELSE IF metres \in TiesRoundedUp THEN q + 1
        ELSE IF metres \in TiesRoundedDown THEN q
        ELSE IF q % 2 = 0 THEN q ELSE q + 1

\* geodesic((lat1, lon1), (lat2, lon2)).kilometers of the geopy library, in
\* metres: a metric on the grid (symmetric, 0 from a point to itself).
GridMetres == 1004
calculate_distance(lat1, lon1, lat2, lon2) ==
    GridMetres * (Abs(lat1 - lat2) + Abs(lon1 - lon2))

---------------------------------------------------------------------------
(* find_nearest_stores *)

\* store['distance_km'] = round(distance, 2), for every store of the list.
WithDistance(user_lat, user_lon, store) ==
    [f \in DOMAIN store \cup {"distance_km"} |->
        IF f = "distance_km"
        THEN Round2(calculate_distance(user_lat, user_lon,
                                       store.latitude, store.longitude))
        ELSE store[f]]

AddDistances(user_lat, user_lon, stores) ==
    [k \in 1..Len(stores) |-> WithDistance(user_lat, user_lon, stores[k])]

\* list.sort(key=lambda x: x['distance_km']): ascending and stable. An entry
\* is inserted after the entries whose key is not larger.
InsertByDistance(sorted, store) ==
    LET before == {k \in 1..Len(sorted) :
                      sorted[k].distance_km <= store.distance_km}
        n == Cardinality(before)
    IN  SubSeq(sorted, 1, n) \o <<store>> \o SubSeq(sorted, n + 1, Len(sorted))

RECURSIVE SortByDistance(_)
SortByDistance(stores) ==
    IF stores = <<>> THEN <<>>
    ELSE InsertByDistance(SortByDistance(SubSeq(stores, 1, Len(stores) - 1)),
                          stores[Len(stores)])

\* stores[:limit]: the first limit entries; a negative limit counts from the
\* end of the list.
SliceTo_All(stores, limit) == stores
SliceTo(stores, limit) ==
    IF limit >= 0
    THEN SubSeq(stores, 1, Min(limit, Len(stores)))
    ELSE SubSeq(stores, 1, Max(0, Len(stores) + limit))

\* The list find_nearest_stores works on, after its sort.
RankedLocal(cat, user_lat, user_lon) ==
    SortByDistance(AddDistances(user_lat, user_lon,
                                get_stores_with_location(cat)))

\* find_nearest_stores has no raise and no call that raises on these
\* inputs: every call returns.
find_nearest_stores(cat, user_lat, user_lon, limit) ==
    [kind |-> "returned",
     value |-> SliceTo(RankedLocal(cat, user_lat, user_lon), limit)]

NoCall == [made |-> FALSE]

RankInit ==
    /\ catalog \in Catalogs
    /\ catalog0 = catalog
    /\ listed = NoValue
    /\ call = NoCall
    /\ nearest = NoValue

RankIdle ==
    /\ catalog = <<>>
    /\ catalog0 = <<>>
    /\ listed = NoValue
    /\ call = NoCall
    /\ nearest = NoValue

\* A caller lists the stores.
ListStores ==
    /\ listed' = [kind |-> "list", value |-> get_stores_with_location(catalog),
                  after_ranking |-> call.made]
    /\ UNCHANGED <<catalog, catalog0, call, nearest>>
    /\ UNCHANGED <<routeVars, queryVars, chatVars>>

\* A caller ranks the stores.
FindNearestStores ==
    \E origin \in Origins, limit \in (-MaxLimit)..MaxLimit :
      LET user_lat == origin[1]
          user_lon == origin[2]
      IN
        /\ call' = [made |-> TRUE, user_lat |-> user_lat, user_lon |-> user_lon, limit |-> limit]
        /\ nearest' = find_nearest_stores(catalog, user_lat, user_lon, limit)
        /\ catalog' = CatalogAfterMutation(catalog,
                                           RankedLocal(catalog, user_lat, user_lon))
        /\ UNCHANGED <<catalog0, listed>>
        /\ UNCHANGED <<routeVars, queryVars, chatVars>>

---------------------------------------------------------------------------
(* get_route_info *)

MaxRoutes == 2     \* a response carries at most MaxRoutes routes

\* A value of a JSON object's key: a number, a value that is no number (a
\* string, null), or the key is not in the object.
Num(n) == [type |-> "number", v |-> n]
NotANumber == [type |-> "string"]
Absent == [type |-> "absent"]

DurationSamples == {-30, 0, 59, 600, 601}
DistanceSamples == {0, 5, 15, 994, 5000, 12345}

FirstRoutes ==
    [duration : {Num(n) : n \in DurationSamples} \cup {Absent, NotANumber},
     distance : {Num(n) : n \in DistanceSamples} \cup {Absent},
     geometry : {"decodable", "undecodable", "absent"}]

\* The entries after the first: a whole route with values of its own, and
\* an object with no key.
LaterRoutes ==
    {[duration |-> Num(120), distance |-> Num(25), geometry |-> "decodable"],
     [duration |-> Absent, distance |-> Absent, geometry |-> "absent"]}

RECURSIVE LaterSeqs(_)
LaterSeqs(n) ==
    IF n = 0 THEN {<<>>}
    ELSE LET shorter == LaterSeqs(n - 1)
         IN shorter \cup
            {Append(s, r) : s \in {t \in shorter : Len(t) = n - 1},
                            r \in LaterRoutes}

RouteLists ==
    {<<>>} \cup {<<first>> \o rest : first \in FirstRoutes,
                                    rest \in LaterSeqs(MaxRoutes - 1)}

\* What requests.get(osrm_url, timeout=10) and response.json() come to.
Responses ==
    {[kind |-> "network_error"], [kind |-> "timeout"], [kind |-> "not_json"]}
    \cup {[kind |-> "json", type |-> t] : t \in {"number", "array", "no_routes",
                                                 "routes_null"}}
    \cup {[kind |-> "json", type |-> "routes", routes |-> r] : r \in RouteLists}

\* polyline.decode(geometry): the points of the path.
decode(geometry) ==
    IF geometry = "decodable" THEN <<<<0, 0>>, <<1, 1>>>> ELSE <<>>

\* int(duration_seconds / 60): int() cuts the quotient towards zero.
IntDiv60_Ceil(seconds) == (seconds + 59) \div 60
IntDiv60(seconds) ==
    IF seconds >= 0 THEN seconds \div 60 ELSE -((-seconds) \div 60)

\* The index of data["routes"][0].
RouteIndex(routes) == 1

\* The body of the try block: it returns, raises, or falls through (the if
\* is false) to the statement after the try.
TryBody(resp) ==
    IF resp.kind \in {"network_error", "timeout"}
    THEN [kind |-> "raise"]      \* requests.get raises
    ELSE IF resp.kind = "not_json"
    THEN [kind |-> "raise"]      \* response.json() raises
    ELSE IF resp.type = "number"
    THEN [kind |-> "raise"]      \* "routes" in data: TypeError
    ELSE IF resp.type \in {"array", "no_routes"}
    THEN [kind |-> "fall"]       \* "routes" in data is False
    ELSE IF resp.type = "routes_null"
    THEN [kind |-> "raise"]      \* len(None): TypeError
    ELSE IF Len(resp.routes) = 0
    THEN [kind |-> "fall"]
    ELSE LET route == resp.routes[RouteIndex(resp.routes)]
         IN  IF route.duration = Absent \/ route.distance = Absent
                \/ route.geometry = "absent"
             THEN [kind |-> "raise"]     \* KeyError
             ELSE IF route.duration = NotANumber
             THEN [kind |-> "raise"]     \* duration_seconds / 60: TypeError
             ELSE IF route.geometry = "undecodable"
             THEN [kind |-> "raise"]     \* polyline.decode raises
             ELSE [kind |-> "return",
                   value |-> [duration_minutes |-> IntDiv60(route.duration.v),
                              distance_km |-> Round2(route.distance.v),
                              route_points |-> decode(route.geometry),
                              success |-> TRUE]]

\* try: ... except: pass, then return {"success": False}.
get_route_info_NoExcept(resp) ==
    LET body == TryBody(resp)
    IN  IF body.kind = "return" THEN [raised |-> FALSE, value |-> body.value]
        ELSE IF body.kind = "raise" THEN [raised |-> TRUE]
        ELSE [raised |-> FALSE, value |-> [success |-> FALSE]]
get_route_info(resp) ==
    LET body == TryBody(resp)
    IN  IF body.kind = "return" THEN [raised |-> FALSE, value |-> body.value]
        ELSE [raised |-> FALSE, value |-> [success |-> FALSE]]

RouteIdle ==
    /\ response = NoValue
    /\ route_info = NoValue

RouteInit == RouteIdle

\* One call of get_route_info: the request, its parsing, the conversion.
GetRouteInfo ==
    \E resp \in Responses :
        /\ response' = resp
        /\ route_info' = get_route_info(resp)
        /\ UNCHANGED <<rankVars, queryVars, chatVars>>

---------------------------------------------------------------------------
(* create_map and main *)

\* create_map asks for a route while i < 3, i counted from 0.
RoutePrefix == 3

\* st.sidebar.slider("Show nearest stores", 1, 10, 5, key="nearest_slider")
SliderMin == 1
SliderMax == 10
SliderDefault == 5

MaxSlide == 5      \* the slider is moved within SliderMin..Min(SliderMax, MaxSlide)

\* The catalogs of the map page: stores 1..n, in the order of their ids.
QueryCatalogs == {[k \in 1..n |-> StoreRecord(k)] : n \in 0..MaxStores}

\* The positions get_geolocation or the manual entry give.
QueryOrigins ==
    {[kind |-> "location", latitude |-> o[1], longitude |-> o[2]] : o \in Origins}

\* The stores the routing service finds a route to, during one script run.
RouteOutcomes == {{}, StoreIds, {i \in StoreIds : i % 2 = 1}}

RouteResponse(store, reachable) ==
    IF store.store_id \in reachable
    THEN [kind |-> "json", type |-> "routes",
          routes |-> <<[duration |-> Num(600), distance |-> Num(5000),
                        geometry |-> "decodable"]>>]
    ELSE [kind |-> "timeout"]

\* for i, store in enumerate(stores): if show_routes and i < 3: (k = i + 1)
AsksRoute_Four(show_routes, k) == show_routes /\ k <= RoutePrefix + 1
AsksRoute(show_routes, k) == show_routes /\ k <= RoutePrefix

\* create_map: for every store a marker; for the stores it asks a route for,
\* a request, and when the request succeeds a route line and the route info
\* in the marker's popup.
create_map(stores, show_routes, reachable) ==
    LET asked == {k \in 1..Len(stores) : AsksRoute(show_routes, k)}
        found == {k \in asked :
                     get_route_info(RouteResponse(stores[k], reachable)).value.success}
    IN  [markers |-> [k \in 1..Len(stores) |->
                        [store_id |-> stores[k].store_id,
                         distance |-> "distance_km" \in DOMAIN stores[k],
                         route_info |-> k \in found]],
         requests |-> [k \in 1..Cardinality(asked) |-> stores[k].store_id],
         lines |-> {stores[k].store_id : k \in found}]

\* The "Nearest Stores" column: for every store of nearest_stores a request,
\* and the travel time when it succeeds.
NearestColumn(nearest_stores, reachable) ==
    [entries |-> [k \in 1..Len(nearest_stores) |-> nearest_stores[k].store_id],
     requests |-> [k \in 1..Len(nearest_stores) |-> nearest_stores[k].store_id],
     travel |-> {nearest_stores[k].store_id : k \in
                    {j \in 1..Len(nearest_stores) :
                        get_route_info(RouteResponse(nearest_stores[j],
                                                     reachable)).value.success}}]

\* A run that draws no map: the sidebar's widgets are not drawn, and come
\* back with their default values.
NoRun ==
    [queried |-> FALSE, show_all |-> TRUE, show_routes |-> TRUE,
     nearest_count |-> SliderDefault, markers |-> <<>>, map_requests |-> <<>>,
     lines |-> {}, entries |-> <<>>, list_requests |-> <<>>, travel |-> {},
     error |-> "none", buttons |-> {}]

\* The part of main under "if st.session_state.user_location:". The button
\* "Show All Distances" writes text and nothing else; it is left out.
Query(cat, location, show_all, show_routes, nearest_count, reachable, click) ==
    LET user_lat == location.latitude
        user_lon == location.longitude
        nearest_stores == find_nearest_stores(cat, user_lat, user_lon,
                                              nearest_count).value
        map_obj ==
            IF show_all
            THEN create_map(RankedLocal(cat, user_lat, user_lon),
                            show_routes, reachable)
            ELSE create_map(nearest_stores, show_routes, reachable)
        column == NearestColumn(nearest_stores, reachable)
    IN  [queried |-> TRUE, show_all |-> show_all, show_routes |-> show_routes,
         nearest_count |-> nearest_count,
         markers |-> map_obj.markers, map_requests |-> map_obj.requests,
         lines |-> map_obj.lines,
         entries |-> column.entries, list_requests |-> column.requests,
         travel |-> column.travel,
         \* find_nearest_stores(user_lat, user_lon, 1)[0]
         error |-> IF click = "nearest" /\ Len(cat) = 0
                   THEN "IndexError" ELSE "none",
         buttons |-> {"nearest", "refresh"}]

\* What the user did to the page the last run drew: nothing (the position
\* changed, or the script asked for the rerun), a checkbox, the slider, or a
\* button.
Events(last) ==
    {[type |-> "none"]}
    \cup {[type |-> "click", button |-> b] : b \in last.buttons}
    \cup (IF last.queried
          THEN {[type |-> "show_all"], [type |-> "show_routes"]}
               \cup {[type |-> "slider", value |-> c] : c \in SliderMin..Min(SliderMax, MaxSlide)}
          ELSE {})

QueryIdle ==
    /\ user_location = NoValue
    /\ run = NoRun

QueryInit ==
    /\ catalog \in QueryCatalogs
    /\ catalog0 = catalog
    /\ listed = NoValue
    /\ call = NoCall
    /\ nearest = NoValue
    /\ QueryIdle

\* One script run of main(): the location, then the map, the column and the
\* quick actions when a location is known.
Rerun ==
    \E loc \in QueryOrigins \cup {NoValue},
       event \in Events(run),
       reachable \in RouteOutcomes :
      \E manual \in IF event = [type |-> "click", button |-> "manual"]
                    THEN QueryOrigins ELSE {NoValue} :
        LET click == IF event.type = "click" THEN event.button ELSE "none"
            location == IF loc # NoValue THEN loc
                        ELSE IF click = "manual" THEN manual
                        ELSE user_location
            show_all == IF event.type = "show_all" THEN ~run.show_all
                        ELSE run.show_all
            show_routes == IF event.type = "show_routes" THEN ~run.show_routes
                           ELSE run.show_routes
            nearest_count == IF event.type = "slider" THEN event.value
                             ELSE run.nearest_count
            q == Query(catalog, location, show_all, show_routes,
                       nearest_count, reachable, click)
        IN  /\ IF location = NoValue
               THEN /\ run' = [NoRun EXCEPT !.buttons = {"manual"}]
                    /\ user_location' = location
               ELSE /\ run' = [q EXCEPT !.buttons =
                                 IF loc = NoValue
                                 THEN @ \cup {"manual"} ELSE @]
                    /\ user_location' =
                          IF click = "refresh" THEN NoValue ELSE location
            /\ UNCHANGED <<rankVars, routeVars, chatVars>>

---------------------------------------------------------------------------
(* medicalbot.py *)

MaxSessions == 2   \* browser sessions 1..MaxSessions
MaxThread == 4     \* no rerun starts once the thread holds MaxThread messages

Sessions == 1..MaxSessions
Images == {"imgA", "imgB"}
Prompts == {"p1", "p2"}

\* The content of the agent's last message: what it read in the image, and
\* its answer to the last user message.
ExtractedText(img) == IF img = "imgA" THEN "textA" ELSE "textB"
Answer(prompt) == IF prompt = "p1" THEN "a1" ELSE "a2"

\* config = {"configurable": {"thread_id": "medical-session"}}: setup_agent
\* is cached with st.cache_resource, so every session uses this agent, this
\* MemorySaver and this config.
ThreadId(s) == <<"medical-session">>

ThreadIds == {ThreadId(s) : s \in Sessions}

\* The messages of the input, marked with the session whose rerun sent them.
Sent(s, msgs) ==
    [k \in 1..Len(msgs) |->
        [origin |-> s, role |-> msgs[k].role, content |-> msgs[k].content]]

vision_prompt(img) ==
    <<[role |-> "user", content |-> "Extract and understand this medical image."],
      [role |-> "user", content |-> img]>>

\* if st.session_state.extracted_text is None:
NeedsExtraction_Always(extracted_text) == TRUE
NeedsExtraction(extracted_text) == extracted_text = None

\* final_input: the extracted text as a system message when there is one,
\* then the session's messages.
final_input(extracted_text, messages) ==
    (IF extracted_text # None /\ extracted_text # ""
     THEN <<[role |-> "system", content |-> extracted_text]>> ELSE <<>>)
    \o messages

\* agent.invoke(input, config) with the MemorySaver: the input is added to
\* the thread's messages and saved; the model answers on all of them; the
\* answer is added and saved. A call that raises leaves the saved input.
AgentState(thread, s, input) == thread \o Sent(s, input)

ChatIdle ==
    /\ session_state = <<>>
    /\ checkpointer = <<>>
    /\ invoked = NoValue
    /\ chat = <<>>

ChatInit ==
    /\ session_state = [s \in Sessions |-> [messages |-> <<>>, extracted_text |-> None]]
    /\ checkpointer = [t \in ThreadIds |-> <<>>]
    /\ invoked = NoValue
    \* history: the vision calls made, the assignments of extracted_text, and
    \* the upload of the session's last rerun
    /\ chat = [s \in Sessions |-> [vision_calls |-> 0, extractions |-> 0,
                                   uploaded_img |-> None]]

\* One script run of medicalbot.py in session s. fails names the agent call
\* that raises in this run, if it is made.
ChatRerun ==
    \E s \in Sessions, uploaded_img \in Images \cup {None},
       prompt \in Prompts \cup {None}, fails \in {"none", "vision", "chat"} :
        LET tid == ThreadId(s)
            st == session_state[s]
            extracts == uploaded_img # None /\ NeedsExtraction(st.extracted_text)
            vision_state == AgentState(checkpointer[tid], s, vision_prompt(uploaded_img))
            vision_raises == extracts /\ fails = "vision"
            text == IF extracts /\ ~vision_raises
                    THEN ExtractedText(uploaded_img) ELSE st.extracted_text
            thread1 == IF ~extracts THEN checkpointer[tid]
                       ELSE IF vision_raises THEN vision_state
                       ELSE Append(vision_state,
                                   [origin |-> s, role |-> "assistant", content |-> text])
            asks == prompt # None /\ ~vision_raises
            messages1 == IF asks
                         THEN Append(st.messages, [role |-> "user", content |-> prompt])
                         ELSE st.messages
            chat_state == AgentState(thread1, s, final_input(text, messages1))
            chat_raises == asks /\ fails = "chat"
            answer == [role |-> "assistant", content |-> Answer(prompt)]
            messages2 == IF asks /\ ~chat_raises
                         THEN Append(messages1, answer) ELSE messages1
            thread2 == IF ~asks THEN thread1
                       ELSE IF chat_raises THEN chat_state
                       ELSE Append(chat_state,
                                   [origin |-> s, role |-> "assistant",
                                    content |-> Answer(prompt)])
        IN  /\ Len(checkpointer[tid]) < MaxThread
            /\ session_state' = [session_state EXCEPT
                                    ![s] = [messages |-> messages2,
                                            extracted_text |-> text]]
            /\ checkpointer' = [checkpointer EXCEPT ![tid] = thread2]
            /\ invoked' = IF asks
                          THEN [kind |-> "chat", session |-> s, state |-> chat_state]
                          ELSE IF extracts
                          THEN [kind |-> "vision", session |-> s, state |-> vision_state]
                          ELSE invoked
            /\ chat' = [chat EXCEPT
                          ![s] = [vision_calls |-> @.vision_calls
                                       + (IF extracts THEN 1 ELSE 0),
                                  extractions |-> @.extractions
                                       + (IF extracts /\ ~vision_raises THEN 1 ELSE 0),
                                  uploaded_img |-> uploaded_img]]
            /\ UNCHANGED <<rankVars, routeVars, queryVars>>

---------------------------------------------------------------------------
(* Specifications *)

InitRank == RankInit /\ RouteIdle /\ QueryIdle /\ ChatIdle
NextRank == ListStores \/ FindNearestStores
SpecRank == InitRank /\ [][NextRank]_vars

InitRoute == RouteInit /\ RankIdle /\ QueryIdle /\ ChatIdle
SpecRoute == InitRoute /\ [][GetRouteInfo]_vars

InitQuery == QueryInit /\ RouteIdle /\ ChatIdle
SpecQuery == InitQuery /\ [][Rerun]_vars

InitChat == ChatInit /\ RankIdle /\ RouteIdle /\ QueryIdle
SpecChat == InitChat /\ [][ChatRerun]_vars

---------------------------------------------------------------------------
(* Claims on find_nearest_stores (SpecRank) *)

Ids(stores) == {stores[k].store_id : k \in 1..Len(stores)}

\* C1: for every origin, every catalog of stores with distinct store_id
\* (the empty one too) and every limit >= 1, find_nearest_stores returns a
\* list sorted non-decreasingly by distance_km, of length
\* min(limit, number of stores), with no store_id twice.
C1_RankedSortedTruncatedDistinct ==
    (call.made /\ call.limit >= 1) =>
        /\ nearest.kind = "returned"
        /\ LET r == nearest.value
           IN  /\ \A i, j \in 1..Len(r) :
                     i < j => r[i].distance_km <= r[j].distance_km
               /\ Len(r) = Min(call.limit, Len(catalog0))
               /\ \A i, j \in 1..Len(r) : i # j => r[i].store_id # r[j].store_id
               /\ Ids(r) \subseteq Ids(catalog0)

\* A ranking of three stores cut to its first two.
C1_Witness ==
    /\ call.made /\ call.limit = 2
    /\ Len(catalog0) = 3
    /\ nearest.kind = "returned" /\ Len(nearest.value) = 2
    /\ nearest.value[1].distance_km < nearest.value[2].distance_km

\* C2: a call with limit <= 0 ends in an InvalidArgument error and never
\* returns a list of stores.
C2_NonPositiveLimitIsInvalidArgument ==
    (call.made /\ call.limit <= 0) => nearest.kind = "InvalidArgument"

C7_QueriesShareNoState ==
    /\ catalog = catalog0
    /\ listed.kind = "list" =>
          /\ listed.value = catalog0
          /\ \A k \in 1..Len(listed.value) :
                "distance_km" \notin DOMAIN listed.value[k]
    /\ call.made =>
          nearest = find_nearest_stores(catalog0, call.user_lat, call.user_lon,
                                        call.limit)

\* A listing made after a ranking that put the catalog's second store first.
C7_Witness ==
    /\ listed.kind = "list" /\ listed.after_ranking
    /\ Len(catalog0) >= 2
    /\ call.made /\ call.limit >= 1
    /\ nearest.value[1].store_id = catalog0[2].store_id

---------------------------------------------------------------------------
(* Claims on get_route_info (SpecRoute) *)

\* A response with a non-empty 'routes' list whose first route carries
\* duration, distance and a decodable geometry.
WellFormedResponse(resp) ==
    /\ resp.kind = "json"
    /\ resp.type = "routes"
    /\ Len(resp.routes) > 0
    /\ resp.routes[1].duration # Absent
    /\ resp.routes[1].distance # Absent
    /\ resp.routes[1].geometry = "decodable"

\* C3: get_route_info never raises, and returns success=true only on a
\* well-formed response: a network error, a timeout, a body that is no JSON,
\* JSON without 'routes', an empty 'routes', a first route missing a key or
\* with an undecodable geometry all give success=false.
C3_RouteInfoFailsSoft ==
    route_info # NoValue =>
        /\ ~route_info.raised
        /\ route_info.value.success => WellFormedResponse(response)

\* A first route with every key and an undecodable geometry: success=false.
C3_Witness ==
    /\ route_info # NoValue
    /\ response.kind = "json" /\ response.type = "routes"
    /\ Len(response.routes) > 0
    /\ response.routes[1].duration = Num(600)
    /\ response.routes[1].distance = Num(5000)
    /\ response.routes[1].geometry = "undecodable"
    /\ ~route_info.raised /\ ~route_info.value.success

\* C6: on success, with d >= 0 seconds and m >= 0 metres in the first route,
\* duration_minutes is floor(d / 60), a non-negative integer, and distance_km
\* is m / 1000 rounded to 2 decimals (in hundredths: within 5 metres of m);
\* d = 600, m = 5000 give 10 minutes and 5.00 km; both are taken from the
\* first route.
C6_MinutesFloorKmRounded ==
    (/\ route_info # NoValue
     /\ ~route_info.raised
     /\ route_info.value.success
     /\ response.routes[1].duration.v >= 0
     /\ response.routes[1].distance.v >= 0) =>
        LET d == response.routes[1].duration.v
            m == response.routes[1].distance.v
            minutes == route_info.value.duration_minutes
            km100 == route_info.value.distance_km
        IN  /\ minutes >= 0
            /\ 60 * minutes <= d /\ d < 60 * (minutes + 1)
            /\ Abs(10 * km100 - m) <= 5
            /\ (d = 600 /\ m = 5000) => (minutes = 10 /\ km100 = 500)

\* A first route of 600 s and 5000 m, followed by a second route with other values.
C6_Witness ==
    /\ route_info # NoValue
    /\ response.kind = "json" /\ response.type = "routes"
    /\ Len(response.routes) = 2
    /\ response.routes[1].duration = Num(600)
    /\ response.routes[1].distance = Num(5000)
    /\ response.routes[2].duration = Num(120)
    /\ route_info.value.success
    /\ route_info.value.duration_minutes = 10

---------------------------------------------------------------------------
(* Claims on main and create_map (SpecQuery) *)

\* C4 as stated: in one query with routes shown, exactly min(3, n) route
\* requests are issued for a ranked list of n stores, and no store at rank 4
\* or later is the destination of a request or shown with travel time.
C4_AtMostThreeRequestsPerQuery ==
    (run.queried /\ run.show_routes) =>
        /\ Len(run.map_requests) + Len(run.list_requests)
              = Min(3, Len(run.entries))
        /\ \A k \in 4..Len(run.entries) :
              /\ \A j \in 1..Len(run.list_requests) :
                    run.list_requests[j] # run.entries[k]
              /\ run.entries[k] \notin run.travel

\* C4 as amended: create_map asks for a route only when show_routes is set
\* and only for the first 3 stores of the list it draws, in their order, and
\* no marker from position 4 on carries route data; the "Nearest Stores"
\* column asks for a route for every one of its min(nearest_count, n) stores.
C4_MapRoutesOnlyForFirstThree ==
    run.queried =>
        LET m == Len(run.markers)
            asked == IF run.show_routes THEN Min(3, m) ELSE 0
        IN  /\ run.map_requests = [k \in 1..asked |-> run.markers[k].store_id]
            /\ \A k \in 1..m : run.markers[k].route_info => k <= asked
            /\ run.lines \subseteq {run.markers[k].store_id : k \in 1..asked}
            /\ run.list_requests = run.entries
            /\ Len(run.entries) = Min(run.nearest_count, Len(catalog))
            /\ run.travel \subseteq Ids(catalog)

\* Four stores on the map and four in the column, routes shown.
C4_Witness ==
    /\ run.queried /\ run.show_routes
    /\ Len(run.markers) >= 4
    /\ Len(run.map_requests) = 3
    /\ run.markers[1].route_info
    /\ Len(run.list_requests) >= 4
    /\ run.entries[4] \in run.travel

---------------------------------------------------------------------------
(* Claims on medicalbot.py (SpecChat) *)

\* C8 as stated: in a session the vision-extraction call is made at most
\* once.
C8_VisionCallAtMostOnce ==
    \A s \in Sessions : chat[s].vision_calls <= 1

\* C8 as amended: a rerun makes the vision call only with an uploaded image
\* and while extracted_text is None; extracted_text is assigned at most once
\* in a session, the text of the image uploaded in that rerun (a call that
\* raises leaves it None, and a later rerun calls again); once it holds a
\* value, no rerun calls again, overwrites or resets it.
C8_ExtractedTextSetOnce ==
    [][\A s \in Sessions :
          LET before == session_state[s].extracted_text
              after == session_state'[s].extracted_text
          IN  /\ before # None =>
                    /\ after = before
                    /\ chat'[s].vision_calls = chat[s].vision_calls
              /\ chat'[s].vision_calls > chat[s].vision_calls =>
                    /\ before = None
                    /\ chat'[s].uploaded_img # None
              /\ after # before =>
                    /\ chat'[s].extractions = chat[s].extractions + 1
                    /\ after = ExtractedText(chat'[s].uploaded_img)
              /\ chat'[s].extractions <= 1]_vars

\* A session that holds the text of imgA after a rerun with imgB uploaded.
C8_Witness ==
    \E s \in Sessions :
        /\ session_state[s].extracted_text = "textA"
        /\ chat[s].uploaded_img = "imgB"
        /\ chat[s].vision_calls = 1
        /\ chat[s].extractions = 1

\* C9: the state the agent reasons over in a call from a session holds no
\* message that another session sent or was answered.
C9_AgentStateOfOneSession ==
    invoked # NoValue =>
        \A k \in 1..Len(invoked.state) :
            invoked.state[k].origin = invoked.session

\* C10: after every rerun, messages is user, assistant, user, assistant, ...
\* of even length, each prompt followed by the answer to it, and holds no
\* system message.
C10_MessagesAlternate ==
    \A s \in Sessions :
        LET m == session_state[s].messages
        IN  /\ Len(m) % 2 = 0
            /\ \A k \in 1..Len(m) :
                  /\ m[k].role = IF k % 2 = 1 THEN "user" ELSE "assistant"
                  /\ k % 2 = 0 => m[k].content = Answer(m[k - 1].content)

====
